---- MODULE Spec2Model ----
(***************************************************************************)
(* Model of package routing (src/routing): the router built once by New()  *)
(* from the host's interfaces and the kernel routing table, and the        *)
(* queries Route / RouteWithSrc answered from that snapshot.               *)
(*                                                                         *)
(* Addresses are byte sequences, as net.IP and net.IPMask are: the empty   *)
(* sequence is Go's nil, an IPv4 address has 4 bytes or the 16-byte        *)
(* IPv4-in-IPv6 form, an IPv6 address has 16 bytes.                        *)
(***************************************************************************)
EXTENDS Integers, Sequences, FiniteSets, TLC

VARIABLES
    built,     \* "none" before New(), "ok" once New() returned a router, "err" when it failed
    ifaces,    \* router.ifaces: interface index -> hardware address
    addrs,     \* router.addrs: interface index -> [v4, v6: sequences of net.IPNet]
    v4, v6,    \* router.v4, router.v6: the sorted route slices
    reported,  \* <<v4, v6>> as setupRouteTable appended them, before sort.Sort
    call       \* the last RouteWithSrc call: its arguments, locals and results

vars == <<built, ifaces, addrs, v4, v6, reported, call>>

----------------------------------------------------------------------------
(* Bounds of the model.                                                    *)

\* Longest sequence of netlink messages / IPv4 forward-table rows one New() reads.
MaxMsgs == 2

\* Longest IPv6 forward table a Windows New() reads.
MaxRows6 == 1

----------------------------------------------------------------------------
(* Go's net package, as far as the router calls it.                        *)

Nil == << >>

RECURSIVE BitAnd(_, _)
\* a & b on bytes.
BitAnd(a, b) ==
    IF a = 0 \/ b = 0 THEN 0
    ELSE IF b = 255 THEN a
    ELSE IF a = 255 THEN b
    ELSE (IF a % 2 = 1 /\ b % 2 = 1 THEN 1 ELSE 0) + 2 * BitAnd(a \div 2, b \div 2)

Zeros(n) == [i \in 1..n |-> 0]

\* v4InV6Prefix: ten zero bytes, then 0xff 0xff.
v4InV6Prefix == [i \in 1..12 |-> IF i <= 10 THEN 0 ELSE 255]

\* net.IPv4(a, b, c, d): the 16-byte form of an IPv4 address.
IPv4(a, b, c, d) == v4InV6Prefix \o <<a, b, c, d>>

\* ip.To4(): the 4-byte form of an IPv4 address, nil when ip is none.
To4(ip) ==
    IF Len(ip) = 4 THEN ip
    ELSE IF Len(ip) = 16 /\ SubSeq(ip, 1, 12) = v4InV6Prefix THEN SubSeq(ip, 13, 16)
    ELSE Nil

\* ip.To16().
To16(ip) ==
    IF Len(ip) = 4 THEN IPv4(ip[1], ip[2], ip[3], ip[4])
    ELSE IF Len(ip) = 16 THEN ip
    ELSE Nil

\* ip.Equal(x): an IPv4 address equals its 16-byte form.
Equal(ip, x) ==
    IF Len(ip) = Len(x) THEN ip = x
    ELSE IF Len(ip) = 4 /\ Len(x) = 16
         THEN SubSeq(x, 1, 12) = v4InV6Prefix /\ ip = SubSeq(x, 13, 16)
    ELSE IF Len(ip) = 16 /\ Len(x) = 4
         THEN SubSeq(ip, 1, 12) = v4InV6Prefix /\ SubSeq(ip, 13, 16) = x
    ELSE FALSE

\* ip.IsUnspecified(): 0.0.0.0 or ::.
IsUnspecified(ip) == Equal(ip, IPv4(0, 0, 0, 0)) \/ Equal(ip, Zeros(16))

\* The byte of a mask that has n leading one bits (0 <= n <= 8).
MaskByte(n) == 256 - 2 ^ (8 - n)

\* net.CIDRMask(ones, bits): nil unless bits is 32 or 128 and 0 <= ones <= bits.
CIDRMask(ones, bits) ==
    IF bits \notin {32, 128} \/ ones < 0 \/ ones > bits THEN Nil
    ELSE [i \in 1..(bits \div 8) |->
            IF ones >= 8 * i THEN 255
            ELSE IF ones <= 8 * (i - 1) THEN 0
            ELSE MaskByte(ones - 8 * (i - 1))]

\* The zero value of net.IPNet.
ZeroIPNet == [IP |-> Nil, Mask |-> Nil]

\* networkNumberAndMask(n): <<nil, nil>> when n's address and mask do not fit.
networkNumberAndMask(n) ==
    LET ip == IF To4(n.IP) # Nil THEN To4(n.IP) ELSE n.IP
        m  == n.Mask
    IN  IF To4(n.IP) = Nil /\ Len(n.IP) # 16 THEN <<Nil, Nil>>
        ELSE IF Len(m) = 4 THEN (IF Len(ip) # 4 THEN <<Nil, Nil>> ELSE <<ip, m>>)
        ELSE IF Len(m) = 16 THEN (IF Len(ip) = 4 THEN <<ip, SubSeq(m, 13, 16)>> ELSE <<ip, m>>)
        ELSE <<Nil, Nil>>

\* n.Contains(ip).
Contains(n, ip) ==
    LET nm == networkNumberAndMask(n)
        nn == nm[1]
        m  == nm[2]
        x  == IF To4(ip) # Nil THEN To4(ip) ELSE ip
    IN  /\ Len(x) = Len(nn)
        /\ \A i \in 1..Len(x) : BitAnd(nn[i], m[i]) = BitAnd(x[i], m[i])

----------------------------------------------------------------------------
(* rtInfo and the order of the route slices.                               *)

RECURSIVE PopCount(_)
\* The inner loop of countMaskOnes: each &= each - 1 until each is 0.
PopCount(b) == IF b = 0 THEN 0 ELSE (b % 2) + PopCount(b \div 2)

RECURSIVE SumOnes(_, _)
SumOnes(mask, i) == IF i > Len(mask) THEN 0 ELSE PopCount(mask[i]) + SumOnes(mask, i + 1)

countMaskOnes(mask) == SumOnes(mask, 1)

\* rtInfo{}: the zero value every ingested route starts from.
ZeroRtInfo ==
    [Dst |-> ZeroIPNet, Src |-> ZeroIPNet, InputIface |-> 0, OutputIface |-> 0,
     Gateway |-> Nil, Priority |-> 0, PrefSrc |-> Nil, Metrics |-> 0]

\* routeSlice.Less with the order of the prefix lengths reversed.
LessAscendingOnes(r, i, j) ==
    LET onesI == countMaskOnes(r[i].Dst.Mask)
        onesJ == countMaskOnes(r[j].Dst.Mask)
    IN  IF onesI = onesJ
        THEN IF r[i].Priority = r[j].Priority
             THEN r[i].Metrics < r[j].Metrics
             ELSE r[i].Priority < r[j].Priority
        ELSE onesI < onesJ

\* routeSlice.Less comparing the priorities the wrong way round.
LessDescendingPriority(r, i, j) ==
    LET onesI == countMaskOnes(r[i].Dst.Mask)
        onesJ == countMaskOnes(r[j].Dst.Mask)
    IN  IF onesI = onesJ
        THEN IF r[i].Priority = r[j].Priority
             THEN r[i].Metrics < r[j].Metrics
             ELSE r[i].Priority > r[j].Priority
        ELSE onesI > onesJ

\* routeSlice.Less.
Less(r, i, j) ==
    LET onesI == countMaskOnes(r[i].Dst.Mask)
        onesJ == countMaskOnes(r[j].Dst.Mask)
    IN  IF onesI = onesJ
        THEN IF r[i].Priority = r[j].Priority
             THEN r[i].Metrics < r[j].Metrics
             ELSE r[i].Priority < r[j].Priority
        ELSE onesI > onesJ

\* The orders in which n things can be arranged.
Perms(n) == {p \in [1..n -> 1..n] : \A i, j \in 1..n : i # j => p[i] # p[j]}

Arrange(s, p) == [i \in 1..Len(s) |-> s[p[i]]]

\* sort.Sort(rs): Go promises ascending order by Less and no stability, so the
\* result is any arrangement of rs that no Less relation contradicts.
SortOutcomes(rs) ==
    {out \in {Arrange(rs, p) : p \in Perms(Len(rs))} :
        \A i, j \in 1..Len(out) : i < j => ~Less(out, j, i)}

----------------------------------------------------------------------------
(* The host New() runs on: its interfaces and its kernel routing table.    *)

IP4(a, b, c, d) == <<a, b, c, d>>

\* 2001:db8::x
Db8(x) == <<32, 1, 13, 184>> \o Zeros(11) \o <<x>>

MacA == <<2, 0, 0, 0, 0, 10>>
MacB == <<2, 0, 0, 0, 0, 11>>

\* An interface address as net.Interface.Addrs reports it: IPv4 addresses in
\* the 16-byte form with a 4-byte mask, IPv6 addresses with a 16-byte mask.
Addr4(a, b, c, d, ones) == [IP |-> IPv4(a, b, c, d), Mask |-> CIDRMask(ones, 32)]

Addr6(x, ones) == [IP |-> Db8(x), Mask |-> CIDRMask(ones, 128)]

Hosts ==
    { [Err |-> FALSE,
       Ifaces |-> << [Index |-> 1, HardwareAddr |-> MacA, AddrsErr |-> FALSE,
                      Addrs |-> << Addr4(192, 168, 1, 10, 24), Addr4(192, 168, 1, 11, 24),
                                   Addr4(10, 0, 0, 5, 8), Addr6(16, 64) >>],
                     [Index |-> 2, HardwareAddr |-> MacA, AddrsErr |-> FALSE,
                      Addrs |-> << Addr4(192, 168, 1, 20, 24) >>] >>],
      [Err |-> FALSE,
       Ifaces |-> << [Index |-> 3, HardwareAddr |-> MacB, AddrsErr |-> FALSE,
                      Addrs |-> << Addr4(10, 0, 0, 7, 8), Addr4(192, 168, 1, 30, 24),
                                   Addr6(48, 64) >>] >>],
      [Err |-> FALSE,
       Ifaces |-> << [Index |-> 1, HardwareAddr |-> MacA, AddrsErr |-> FALSE, Addrs |-> << >>],
                     [Index |-> 1, HardwareAddr |-> MacB, AddrsErr |-> FALSE, Addrs |-> << >>] >>],
      [Err |-> FALSE,
       Ifaces |-> << [Index |-> 1, HardwareAddr |-> MacA, AddrsErr |-> TRUE, Addrs |-> << >>] >>],
      [Err |-> TRUE, Ifaces |-> << >>] }

AF_INET == 2
AF_INET6 == 10
AF_MPLS == 28

\* One netlink message of the route dump: the rtmsg header fields the code
\* reads and the attributes it decodes; Nil or 0 stands for an attribute the
\* message does not carry.
BaseMsg ==
    [Type |-> "RTM_NEWROUTE", Family |-> AF_INET, DstLen |-> 0, SrcLen |-> 0,
     Dst |-> Nil, Src |-> Nil, Iif |-> 0, Oif |-> 0, Gateway |-> Nil,
     Priority |-> 0, PrefSrc |-> Nil, Metrics |-> 0]

LinuxMsgs ==
    { \* 10.0.0.0/8, on link, no output interface
      [BaseMsg EXCEPT !.Dst = IP4(10, 0, 0, 0), !.DstLen = 8],
      \* 10.1.0.0/16 dev 1 iif 1, gateway 0.0.0.0, priority 1
      [BaseMsg EXCEPT !.Dst = IP4(10, 1, 0, 0), !.DstLen = 16, !.Oif = 1, !.Iif = 1,
                      !.Gateway = IP4(0, 0, 0, 0), !.Priority = 1],
      \* 10.1.0.0/16 via 10.0.0.1 dev 1, priority 5
      [BaseMsg EXCEPT !.Dst = IP4(10, 1, 0, 0), !.DstLen = 16, !.Oif = 1,
                      !.Gateway = IP4(10, 0, 0, 1), !.Priority = 5],
      \* 192.168.1.0/24, no output interface, src 192.168.1.99 (assigned nowhere)
      [BaseMsg EXCEPT !.Dst = IP4(192, 168, 1, 0), !.DstLen = 24,
                      !.PrefSrc = IP4(192, 168, 1, 99)],
      \* 192.168.1.0/24 from 10.0.0.0/8 dev 1 src 10.0.0.5
      [BaseMsg EXCEPT !.Dst = IP4(192, 168, 1, 0), !.DstLen = 24, !.Src = IP4(10, 0, 0, 0),
                      !.SrcLen = 8, !.Oif = 1, !.PrefSrc = IP4(10, 0, 0, 5)],
      \* 192.168.1.0/24 dev 1 src 192.168.1.10, metrics 1
      [BaseMsg EXCEPT !.Dst = IP4(192, 168, 1, 0), !.DstLen = 24, !.Oif = 1,
                      !.PrefSrc = IP4(192, 168, 1, 10), !.Metrics = 1],
      \* 2001:db8::/64 dev 1
      [BaseMsg EXCEPT !.Family = AF_INET6, !.Dst = Db8(0), !.DstLen = 64, !.Oif = 1],
      \* a route of another family
      [BaseMsg EXCEPT !.Family = AF_MPLS, !.Oif = 1],
      \* the end of the dump
      [BaseMsg EXCEPT !.Type = "NLMSG_DONE"] }

\* One MIB_IPFORWARD_ROW2 of GetIpForwardTable2.
WinRows4 ==
    { [Prefix |-> IP4(10, 0, 0, 0), PrefixLength |-> 8, InterfaceIndex |-> 1,
       NextHop |-> IP4(0, 0, 0, 0), Metric |-> 10],
      [Prefix |-> IP4(10, 1, 0, 0), PrefixLength |-> 16, InterfaceIndex |-> 1,
       NextHop |-> IP4(10, 0, 0, 1), Metric |-> 5],
      [Prefix |-> IP4(192, 168, 1, 0), PrefixLength |-> 24, InterfaceIndex |-> 3,
       NextHop |-> IP4(0, 0, 0, 0), Metric |-> 5] }

WinRows6 ==
    { [Prefix |-> Db8(0), PrefixLength |-> 64, InterfaceIndex |-> 1,
       NextHop |-> Zeros(16), Metric |-> 5] }

\* The sequences of at most n elements of S.
SeqsUpTo(S, n) == UNION {[1..k -> S] : k \in 0..n}

----------------------------------------------------------------------------
(* New(): the interface index, then the platform's setupRouteTable.        *)

RECURSIVE IfaceLoop(_, _, _, _)
\* The loop of New over net.Interfaces(): the maps it has filled when it
\* ends, or Err when it met a second interface with an index already seen or
\* an interface whose Addrs() failed.
IfaceLoop(list, i, ifs, ads) ==
    IF i > Len(list) THEN [Err |-> FALSE, ifaces |-> ifs, addrs |-> ads]
    ELSE LET iface == list[i]
             a4 == SelectSeq(iface.Addrs, LAMBDA n : To4(n.IP) # Nil)
             a6 == SelectSeq(iface.Addrs, LAMBDA n : To4(n.IP) = Nil)
         IN  IF iface.Index \in DOMAIN ifs \/ iface.AddrsErr
             THEN [Err |-> TRUE, ifaces |-> ifs, addrs |-> ads]
             ELSE IfaceLoop(list, i + 1,
                            (iface.Index :> iface.HardwareAddr) @@ ifs,
                            (iface.Index :> [v4 |-> a4, v6 |-> a6]) @@ ads)

EmptyMap == [x \in {} |-> 0]

\* The rtInfo the RTM_NEWROUTE case builds from one message.
LinuxRtInfo(m) ==
    [Dst |-> IF m.Dst = Nil THEN ZeroIPNet
             ELSE [IP |-> m.Dst, Mask |-> CIDRMask(m.DstLen, Len(m.Dst) * 8)],
     Src |-> IF m.Src = Nil THEN ZeroIPNet
             ELSE [IP |-> m.Src, Mask |-> CIDRMask(m.SrcLen, Len(m.Src) * 8)],
     InputIface |-> m.Iif, OutputIface |-> m.Oif, Gateway |-> m.Gateway,
     Priority |-> m.Priority, PrefSrc |-> m.PrefSrc, Metrics |-> m.Metrics]

RECURSIVE LinuxLoop(_, _, _, _)
\* The message loop of the Linux setupRouteTable: <<r.v4, r.v6>> as appended.
LinuxLoop(msgs, i, r4, r6) ==
    IF i > Len(msgs) THEN <<r4, r6>>
    ELSE LET m == msgs[i]
         IN  IF m.Type = "NLMSG_DONE" THEN <<r4, r6>>
             ELSE IF m.Type # "RTM_NEWROUTE" THEN LinuxLoop(msgs, i + 1, r4, r6)
             ELSE IF m.Family # AF_INET /\ m.Family # AF_INET6
                  THEN LinuxLoop(msgs, i + 1, r4, r6)
             ELSE IF m.Family = AF_INET
                  THEN LinuxLoop(msgs, i + 1, Append(r4, LinuxRtInfo(m)), r6)
             ELSE LinuxLoop(msgs, i + 1, r4, Append(r6, LinuxRtInfo(m)))

\* The rtInfo the Windows setupRouteTable builds from one row of `bits` bits.
WinRtInfo(row, bits) ==
    [ZeroRtInfo EXCEPT !.Dst = [IP |-> row.Prefix, Mask |-> CIDRMask(row.PrefixLength, bits)],
                       !.OutputIface = row.InterfaceIndex,
                       !.Gateway = row.NextHop,
                       !.Metrics = row.Metric]

\* New() failed: no router is returned.
NewFails ==
    /\ built' = "err"
    /\ UNCHANGED <<ifaces, addrs, v4, v6, reported, call>>

\* New() returned a router holding the interface maps and the sorted slices.
NewReturns(idx, r4, r6) ==
    /\ built' = "ok"
    /\ ifaces' = idx.ifaces
    /\ addrs' = idx.addrs
    /\ reported' = <<r4, r6>>
    /\ v4' \in SortOutcomes(r4)
    /\ v6' \in SortOutcomes(r6)
    /\ UNCHANGED call

\* New() in a Linux build.
NewLinux ==
    /\ built = "none"
    /\ \E host \in Hosts, ribErr \in BOOLEAN, msgs \in SeqsUpTo(LinuxMsgs, MaxMsgs) :
          LET idx == IfaceLoop(host.Ifaces, 1, EmptyMap, EmptyMap)
              rs  == LinuxLoop(msgs, 1, << >>, << >>)
          IN  IF host.Err \/ idx.Err \/ ribErr
              THEN NewFails
              ELSE NewReturns(idx, rs[1], rs[2])

\* New() in a Windows build.
NewWindows ==
    /\ built = "none"
    /\ \E host \in Hosts, tableErr \in BOOLEAN,
          rows4 \in SeqsUpTo(WinRows4, MaxMsgs), rows6 \in SeqsUpTo(WinRows6, MaxRows6) :
          LET idx == IfaceLoop(host.Ifaces, 1, EmptyMap, EmptyMap)
              r4  == [i \in 1..Len(rows4) |-> WinRtInfo(rows4[i], 32)]
              r6  == [i \in 1..Len(rows6) |-> WinRtInfo(rows6[i], 128)]
          IN  IF host.Err \/ idx.Err \/ tableErr
              THEN NewFails
              ELSE NewReturns(idx, r4, r6)

----------------------------------------------------------------------------
(* RouteWithSrc and route.                                                 *)

\* The orders in which a range statement can visit the keys of a map.
IterOrders(map) ==
    LET n == Cardinality(DOMAIN map)
    IN  {o \in [1..n -> DOMAIN map] : \A i, j \in 1..n : i # j => o[i] # o[j]}

\* The search for the input hardware address that leaves the index unmatched at 0.
InputIndexUnmatchedZero(input, order) ==
    LET hits == {k \in 1..Len(order) : ifaces[order[k]] = input}
    IN  IF input = Nil \/ hits = {} THEN 0
        ELSE order[CHOOSE k \in hits : \A h \in hits : k <= h]

\* The head of RouteWithSrc: 0 for a nil input, else the first interface in
\* the map's iteration order with that hardware address, else -1.
InputIndex(input, order) ==
    LET hits == {k \in 1..Len(order) : ifaces[order[k]] = input}
    IN  IF input = Nil THEN 0
        ELSE IF hits = {} THEN -1
        ELSE order[CHOOSE k \in hits : \A h \in hits : k <= h]

\* The dispatch of RouteWithSrc by the length of dst alone.
FamilyByLength(dst) ==
    IF Len(dst) = 4 THEN "v4" ELSE IF Len(dst) = 16 THEN "v6" ELSE "invalid"

\* The switch of RouteWithSrc: dst.To4() != nil, dst.To16() != nil, default.
Family(dst) ==
    IF To4(dst) # Nil THEN "v4" ELSE IF To16(dst) # Nil THEN "v6" ELSE "invalid"

\* The three tests of route's scan on one entry.
RouteMatches(rt, input, src, dst) ==
    /\ Contains(rt.Dst, dst)
    /\ Contains(rt.Src, src)
    /\ ~(rt.InputIface # 0 /\ input # 0 /\ rt.InputIface # input)

\* The gateway taken from the entry whatever it holds.
DeriveGatewayAlwaysEntry(rt, dst) == rt.Gateway

\* gateway: dst for an entry without gateway or with the unspecified one.
DeriveGateway(rt, dst) ==
    IF rt.Gateway = Nil \/ IsUnspecified(rt.Gateway) THEN dst ELSE rt.Gateway

RECURSIVE Flatten(_, _, _)
\* The <<interface, address>> pairs the nested loops over r.addrs visit, in
\* the order they visit them, from the k-th interface of `order` on.
Flatten(order, k, ipv6) ==
    IF k > Len(order) THEN << >>
    ELSE LET list == IF ipv6 THEN addrs[order[k]].v6 ELSE addrs[order[k]].v4
         IN  [j \in 1..Len(list) |-> [iface |-> order[k], net |-> list[j]]]
             \o Flatten(order, k + 1, ipv6)

NoHit == [iface |-> 0, net |-> ZeroIPNet]

\* What a loop that assigns on every hit is left with: the last hit.
LastOf(hits) == IF hits = << >> THEN NoHit ELSE hits[Len(hits)]

\* An equality search that finds nothing.
EqualSearchNever(pairs, gateway, prefSrc) == NoHit

\* The loops run when PrefSrc is set: each.Contains(gateway) && each.IP.Equal(PrefSrc).
EqualSearch(pairs, gateway, prefSrc) ==
    LastOf(SelectSeq(pairs, LAMBDA e : Contains(e.net, gateway) /\ Equal(e.net.IP, prefSrc)))

\* The loops run while preferredSrc is nil: each.Contains(gateway).
ContainSearch(pairs, gateway) ==
    LastOf(SelectSeq(pairs, LAMBDA e : Contains(e.net, gateway)))

\* The two searches with the second one run only for an entry without PrefSrc.
SrcSearchNoFallback(pairs1, pairs2, gateway, prefSrc) ==
    IF prefSrc # Nil THEN EqualSearch(pairs1, gateway, prefSrc)
    ELSE ContainSearch(pairs2, gateway)

\* The two searches of either branch: the equality search when PrefSrc is
\* set, then the containment search when preferredSrc is still nil.
SrcSearch(pairs1, pairs2, gateway, prefSrc) ==
    LET eq == IF prefSrc # Nil THEN EqualSearch(pairs1, gateway, prefSrc) ELSE NoHit
    IN  IF eq.net.IP = Nil THEN ContainSearch(pairs2, gateway) ELSE eq

\* What route returns, with the entry it matched.
RouteResult(m, rt, iface, gateway, preferredSrc, err) ==
    [matched |-> m, rt |-> rt, iface |-> iface, gateway |-> gateway,
     preferredSrc |-> preferredSrc, err |-> err]

\* route(input, src, dst, ipv6): every result it can return, over the orders
\* in which its range statements can visit r.addrs.
route(input, src, dst, ipv6) ==
    LET rs   == IF ipv6 THEN v6 ELSE v4
        hits == {i \in 1..Len(rs) : RouteMatches(rs[i], input, src, dst)}
    IN  IF hits = {}
        THEN {RouteResult(0, ZeroRtInfo, 0, Nil, Nil, "no route found")}
        ELSE LET m       == CHOOSE i \in hits : \A h \in hits : i <= h
                 rt      == rs[m]
                 gateway == DeriveGateway(rt, dst)
                 Done(hit, iface) ==
                     IF hit.net.IP = Nil
                     THEN RouteResult(m, rt, iface, gateway, Nil, "no src found")
                     ELSE RouteResult(m, rt, iface, gateway, hit.net.IP, "")
             IN  IF rt.OutputIface = 0
                 THEN {LET hit == SrcSearch(Flatten(o[1], 1, ipv6), Flatten(o[2], 1, ipv6),
                                            gateway, rt.PrefSrc)
                       IN  Done(hit, hit.iface) :
                          o \in IterOrders(addrs) \X IterOrders(addrs)}
                 ELSE IF rt.OutputIface \notin DOMAIN addrs
                 THEN {RouteResult(m, rt, rt.OutputIface, gateway, Nil,
                                   "no output interface found")}
                 ELSE LET pairs == Flatten(<<rt.OutputIface>>, 1, ipv6)
                      IN  {Done(SrcSearch(pairs, pairs, gateway, rt.PrefSrc), rt.OutputIface)}

\* The state of `call` before any call.
NoCall ==
    [op |-> "none", input |-> Nil, src |-> Nil, dst |-> Nil, inputIndex |-> 0,
     family |-> "invalid", matched |-> 0, rt |-> ZeroRtInfo,
     iface |-> 0, gateway |-> Nil, preferredSrc |-> Nil, err |-> ""]

\* Every record RouteWithSrc(input, src, dst) can leave in `call`.
RouteWithSrcResults(op, input, src, dst) ==
    LET fam  == Family(dst)
        base == [NoCall EXCEPT !.op = op, !.input = input, !.src = src, !.dst = dst,
                               !.family = fam]
    IN  UNION { LET idx == InputIndex(input, order)
                IN  IF fam = "invalid"
                    THEN {[base EXCEPT !.inputIndex = idx,
                                       !.err = "IP is not valid as IPv4 or IPv6"]}
                    ELSE {[base EXCEPT !.inputIndex = idx, !.matched = r.matched,
                                       !.rt = r.rt,
                                       !.iface = IF r.err = "" THEN r.iface ELSE 0,
                                       !.gateway = r.gateway,
                                       !.preferredSrc = r.preferredSrc,
                                       !.err = r.err] :
                              r \in route(idx, src, dst, fam = "v6")} :
                order \in IterOrders(ifaces) }

Inputs == {Nil, MacA, MacB}

Srcs == {Nil, IP4(10, 0, 0, 9)}

Dsts == {IP4(10, 1, 2, 3), IPv4(192, 168, 1, 50), Db8(80), <<1, 2, 3>>}

RouteWithSrc ==
    /\ built = "ok"
    /\ \E input \in Inputs, src \in Srcs, dst \in Dsts :
          call' \in RouteWithSrcResults("RouteWithSrc", input, src, dst)
    /\ UNCHANGED <<built, ifaces, addrs, v4, v6, reported>>

\* Route(dst) is RouteWithSrc(nil, nil, dst).
Route ==
    /\ built = "ok"
    /\ \E dst \in Dsts : call' \in RouteWithSrcResults("Route", Nil, Nil, dst)
    /\ UNCHANGED <<built, ifaces, addrs, v4, v6, reported>>

----------------------------------------------------------------------------

Init ==
    /\ built = "none"
    /\ ifaces = EmptyMap
    /\ addrs = EmptyMap
    /\ v4 = << >>
    /\ v6 = << >>
    /\ reported = << << >>, << >> >>
    /\ call = NoCall

Next == NewLinux \/ NewWindows \/ RouteWithSrc \/ Route

Spec == Init /\ [][Next]_vars

----------------------------------------------------------------------------
(* Vocabulary of the properties.                                           *)

CallMade == call.op # "none"

\* The slice the last call scanned.
Scanned == IF call.family = "v6" THEN v6 ELSE v4

PrefixLen(rt) == countMaskOnes(rt.Dst.Mask)

\* a is at least as preferred as b: longer prefix, then lower priority, then
\* lower metric.
Preferred(a, b) ==
    \/ PrefixLen(a) > PrefixLen(b)
    \/ /\ PrefixLen(a) = PrefixLen(b)
       /\ \/ a.Priority < b.Priority
          \/ a.Priority = b.Priority /\ a.Metrics <= b.Metrics

\* The entries of the scanned slice that pass the three tests of the scan.
Candidates ==
    {i \in 1..Len(Scanned) :
        RouteMatches(Scanned[i], call.inputIndex, call.src, call.dst)}

Range(s) == {s[i] : i \in 1..Len(s)}

----------------------------------------------------------------------------
\* C1: the entry route() selects is, among the entries of the scanned family
\* that pass the scan's tests (destination contained, source contained, input
\* interface compatible), one of greatest prefix length, then lowest
\* priority, then lowest metric, whatever order the entries were reported
\* in; and an entry is selected whenever one passes.
C1_BestMatchSelected ==
    (CallMade /\ call.family # "invalid") =>
        /\ (call.matched = 0) <=> (Candidates = {})
        /\ call.matched # 0 =>
              /\ call.matched \in Candidates
              /\ call.rt = Scanned[call.matched]
              /\ \A i \in Candidates : Preferred(call.rt, Scanned[i])

\* C1 witness: the /8 entry was reported before a /16 entry, both pass the
\* tests for 10.1.2.3, and the call selected the /16 entry.
C1_Witness ==
    /\ CallMade
    /\ call.dst = IP4(10, 1, 2, 3)
    /\ Len(reported[1]) = 2
    /\ PrefixLen(reported[1][1]) = 8
    /\ PrefixLen(reported[1][2]) = 16
    /\ Cardinality(Candidates) = 2
    /\ call.matched # 0
    /\ PrefixLen(call.rt) = 16

\* s is non-increasing in prefix length and, between neighbours of equal
\* prefix length, non-decreasing in (Priority, Metrics).
Ordered(s) ==
    \A i \in 1..(Len(s) - 1) :
        /\ PrefixLen(s[i]) >= PrefixLen(s[i + 1])
        /\ PrefixLen(s[i]) = PrefixLen(s[i + 1]) =>
              \/ s[i].Priority < s[i + 1].Priority
              \/ s[i].Priority = s[i + 1].Priority /\ s[i].Metrics <= s[i + 1].Metrics

\* C2: once setupRouteTable has returned, r.v4 and r.v6 are each
\* non-increasing in destination prefix length and, among neighbours of equal
\* prefix length, non-decreasing in (Priority, Metrics); queries keep it so.
C2_TableOrdered == built = "ok" => Ordered(v4) /\ Ordered(v6)

\* C2 witness: two routes were reported in the opposite of the table's order,
\* and a query has been answered from the sorted table.
C2_Witness ==
    /\ built = "ok"
    /\ CallMade
    /\ Len(reported[1]) = 2
    /\ ~Ordered(reported[1])
    /\ v4 = <<reported[1][2], reported[1][1]>>

----------------------------------------------------------------------------
\* The test of the scan on the input interface.
InputCompatible(rt) ==
    rt.InputIface = 0 \/ call.inputIndex = 0 \/ rt.InputIface = call.inputIndex

\* C3: an entry whose Src is the zero value passes the source test for every
\* source argument, absent or present: such an entry that contains the
\* destination and is compatible with the input interface is never passed
\* over by the scan.
C3_AbsentSrcMatchesAnySource ==
    (CallMade /\ call.family # "invalid") =>
        \A i \in 1..Len(Scanned) :
            (/\ Scanned[i].Src = ZeroIPNet
             /\ Contains(Scanned[i].Dst, call.dst)
             /\ InputCompatible(Scanned[i]))
            => (call.matched # 0 /\ call.matched <= i)

----------------------------------------------------------------------------
\* The input hardware address is present and no interface has it.
Unmatched ==
    /\ call.input # Nil
    /\ \A k \in DOMAIN ifaces : ifaces[k] # call.input

CallResult(c) == <<c.iface, c.gateway, c.preferredSrc, c.err>>

\* C4 as claimed: a call whose input hardware address no interface has
\* returns what RouteWithSrc(nil, src, dst) returns.
C4_UnmatchedInputUnconstrained ==
    (CallMade /\ Unmatched) =>
        CallResult(call) \in
            {CallResult(c) : c \in RouteWithSrcResults(call.op, Nil, call.src, call.dst)}

\* The entries without InputIface that contain destination and source.
FreeCandidates ==
    {i \in 1..Len(Scanned) :
        /\ Scanned[i].InputIface = 0
        /\ Contains(Scanned[i].Dst, call.dst)
        /\ Contains(Scanned[i].Src, call.src)}

\* C4 amended: a call whose input hardware address no interface has scans
\* with input index -1, so every entry whose InputIface is set is passed
\* over; it matches the first entry without InputIface that contains
\* destination and source, and fails with "no route found" when there is none.
C4_UnmatchedInputSkipsIifEntries ==
    (CallMade /\ Unmatched) =>
        /\ call.inputIndex = -1
        /\ call.family # "invalid" =>
              /\ (call.matched = 0) <=> (FreeCandidates = {})
              /\ call.matched = 0 => call.err = "no route found"
              /\ call.matched # 0 =>
                    /\ call.matched \in FreeCandidates
                    /\ \A i \in FreeCandidates : call.matched <= i

\* C4 witness: the input is unmatched, an entry with InputIface set contains
\* the destination and the source, and the call found no route.
C4_Witness ==
    /\ CallMade
    /\ Unmatched
    /\ call.err = "no route found"
    /\ \E i \in 1..Len(Scanned) :
          /\ Scanned[i].InputIface # 0
          /\ Contains(Scanned[i].Dst, call.dst)
          /\ Contains(Scanned[i].Src, call.src)

----------------------------------------------------------------------------
\* 0.0.0.0 in either form, or ::.
Unspecified(ip) == ip \in {IP4(0, 0, 0, 0), IPv4(0, 0, 0, 0), Zeros(16)}

\* The gateway the matched entry and the destination argument determine.
ExpectedGateway ==
    IF call.rt.Gateway = Nil \/ Unspecified(call.rt.Gateway)
    THEN call.dst
    ELSE call.rt.Gateway

\* The interfaces whose addresses are searched for the matched entry.
SearchedIfaces ==
    IF call.rt.OutputIface = 0 THEN DOMAIN addrs
    ELSE {call.rt.OutputIface} \cap DOMAIN addrs

\* The addresses of interface i in the destination's family.
Nets(i) == Range(IF call.family = "v6" THEN addrs[i].v6 ELSE addrs[i].v4)

\* C5: a successful resolve returns the destination as gateway when the
\* matched entry has no gateway or the unspecified one, and the entry's
\* gateway otherwise; the address search is about this same gateway: the
\* returned source is an address whose prefix contains it, and "no src
\* found" means no searched address contains it.
C5_GatewayDerived ==
    (CallMade /\ call.matched # 0) =>
        /\ call.err = "" =>
              /\ call.gateway = ExpectedGateway
              /\ \E n \in Nets(call.iface) :
                    n.IP = call.preferredSrc /\ Contains(n, ExpectedGateway)
        /\ call.err = "no src found" =>
              \A i \in SearchedIfaces : \A n \in Nets(i) : ~Contains(n, ExpectedGateway)

\* C5 witness: the matched entry carries the gateway 0.0.0.0 and the resolve
\* succeeded with the destination as gateway.
C5_Witness ==
    /\ CallMade
    /\ call.err = ""
    /\ call.rt.Gateway = IP4(0, 0, 0, 0)
    /\ call.gateway = call.dst

----------------------------------------------------------------------------
\* The matched entry's PrefSrc is set and no searched address equals it,
\* while some searched address contains the gateway.
FallbackCase ==
    /\ CallMade
    /\ call.matched # 0
    /\ call.rt.PrefSrc # Nil
    /\ \A i \in SearchedIfaces : \A n \in Nets(i) : ~Equal(n.IP, call.rt.PrefSrc)
    /\ \E i \in SearchedIfaces : \E n \in Nets(i) : Contains(n, ExpectedGateway)

\* C6: fallback precedes failure: when the matched entry's PrefSrc equals no
\* address of the searched interfaces but a searched interface has an address
\* whose prefix contains the gateway, the resolve succeeds and returns such
\* an interface with one of its containing addresses.
C6_FallbackPrecedesFailure ==
    FallbackCase =>
        /\ call.err = ""
        /\ call.iface \in SearchedIfaces
        /\ \E n \in Nets(call.iface) :
              n.IP = call.preferredSrc /\ Contains(n, ExpectedGateway)

\* C6 witness: the fallback case with an entry that pins no output interface.
C6_Witness ==
    /\ FallbackCase
    /\ call.rt.OutputIface = 0
    /\ call.err = ""

----------------------------------------------------------------------------
\* C7 as claimed: a 16-byte destination is never matched against an entry
\* of the v4 slice, nor a 4-byte destination against one of the v6 slice.
C7_FamilyByLength ==
    (CallMade /\ call.matched # 0) =>
        /\ Len(call.dst) = 16 => call.family = "v6"
        /\ Len(call.dst) = 4 => call.family = "v4"

\* C7 amended: the slice scanned is chosen by dst.To4(): the v4 slice for a
\* 4-byte destination and for a 16-byte IPv4-mapped one, the v6 slice for
\* any other 16-byte destination, none for any other length; the entry
\* matched is an entry of that slice, with a destination prefix of that family.
C7_FamilyByTo4 ==
    CallMade =>
        /\ (call.family = "v4") <=> (To4(call.dst) # Nil)
        /\ (call.family = "v6") <=> (To4(call.dst) = Nil /\ Len(call.dst) = 16)
        /\ call.family = "invalid" => call.matched = 0
        /\ call.matched # 0 =>
              /\ call.family = "v4" =>
                    call.rt \in Range(v4) /\ Len(call.rt.Dst.IP) = 4
              /\ call.family = "v6" =>
                    call.rt \in Range(v6) /\ Len(call.rt.Dst.IP) = 16

\* C7 witness: a 16-byte IPv4-mapped destination matched an entry of the v4 slice.
C7_Witness ==
    /\ CallMade
    /\ Len(call.dst) = 16
    /\ To4(call.dst) # Nil
    /\ call.matched # 0
    /\ call.rt \in Range(v4)

----------------------------------------------------------------------------
Tied(a, b) ==
    /\ PrefixLen(a) = PrefixLen(b)
    /\ a.Priority = b.Priority
    /\ a.Metrics = b.Metrics

\* out is rs sorted with the entries that tie kept in their order in rs.
StableSorted(rs, out) ==
    \E p \in Perms(Len(rs)) :
        /\ out = Arrange(rs, p)
        /\ Ordered(out)
        /\ \A i, j \in 1..Len(rs) : (i < j /\ Tied(out[i], out[j])) => p[i] < p[j]

\* C8: the built table keeps entries that tie on prefix length, priority and
\* metric in the order the platform reported them.
C8_StableOrder ==
    built = "ok" => StableSorted(reported[1], v4) /\ StableSorted(reported[2], v6)

----------------------------------------------------------------------------
\* The matched entry pins an output interface that the router knows.
Pinned ==
    /\ CallMade
    /\ call.matched # 0
    /\ call.rt.OutputIface # 0
    /\ call.rt.OutputIface \in DOMAIN addrs

\* C9 as claimed: when the pinned interface has an address equal to the
\* entry's PrefSrc, the resolve succeeds and returns that address, whether
\* or not its prefix contains the gateway.
C9_EqualityAlone ==
    (Pinned /\ \E n \in Nets(call.rt.OutputIface) : Equal(n.IP, call.rt.PrefSrc)) =>
        /\ call.err = ""
        /\ Equal(call.preferredSrc, call.rt.PrefSrc)

\* The addresses of the pinned interface whose prefix contains the gateway.
Containing == {n \in Nets(call.rt.OutputIface) : Contains(n, ExpectedGateway)}

\* C9 amended: when the pinned interface has an address equal to the entry's
\* PrefSrc whose prefix contains the gateway, the resolve succeeds and
\* returns that address, before any other containing address; when it has
\* none, PrefSrc is not used: the resolve returns an address whose prefix
\* contains the gateway, or fails with "no src found" when there is none.
C9_EqualityAndContainment ==
    (Pinned /\ call.rt.PrefSrc # Nil) =>
        LET eq == {n \in Containing : Equal(n.IP, call.rt.PrefSrc)}
        IN  /\ eq # {} =>
                  /\ call.err = ""
                  /\ call.iface = call.rt.OutputIface
                  /\ Equal(call.preferredSrc, call.rt.PrefSrc)
            /\ (eq = {} /\ Containing # {}) =>
                  /\ call.err = ""
                  /\ call.iface = call.rt.OutputIface
                  /\ call.preferredSrc \in {n.IP : n \in Containing}
            /\ Containing = {} => call.err = "no src found"

\* C9 witness: the pinned interface has an address equal to PrefSrc that
\* contains the gateway and another containing address, and the resolve
\* returned the equal one.
C9_Witness ==
    /\ Pinned
    /\ call.rt.PrefSrc # Nil
    /\ \E n \in Containing : Equal(n.IP, call.rt.PrefSrc)
    /\ \E n \in Containing : ~Equal(n.IP, call.rt.PrefSrc)
    /\ call.err = ""
    /\ Equal(call.preferredSrc, call.rt.PrefSrc)

----------------------------------------------------------------------------
\* C10: two calls with the same arguments on the same router return the same
\* interface, gateway, preferred source and error.
C10_Deterministic ==
    [][(/\ CallMade
        /\ call'.op # "none"
        /\ call'.input = call.input
        /\ call'.src = call.src
        /\ call'.dst = call.dst)
       => CallResult(call') = CallResult(call)]_vars

====
